---- MODULE Spec2Model ----
(***************************************************************************)
(* A model of termux.py: the Notification record and its binding setters,  *)
(* the NotificationManager's live set, its callback listener (one          *)
(* coroutine per connection on a single-threaded asyncio loop), the action *)
(* dispatcher and the listener's start/stop controls.                      *)
(*                                                                         *)
(* Text is modelled as sequences of one-character strings, so that the     *)
(* request-line parsing (split, slice, int) is computed as Python computes *)
(* it.                                                                     *)
(***************************************************************************)
EXTENDS Integers, Sequences, FiniteSets, Bags, TLC

\* ------------------------------------------------------------------ bounds
\* Number of Notification objects the caller has built; their ids and the
\* ids callback requests name are 1..MaxObjs.
MaxObjs == 2
\* Number of callback connections made to the listener.
MaxConns == 2
\* Number of external commands (_run) that may be in flight at once.
MaxRunning == 1

\* The calls of new_nid followed.
MaxIds == 3

\* The notification ids of the round trip: every integer from -MaxAbsId to MaxAbsId.
MaxAbsId == 11

Objs == 1..MaxObjs
Conns == 1..MaxConns

\* ------------------------------------------------------- action constants
ACTION_CLICK == <<"c","l","i","c","k">>
ACTION_DELETE == <<"d","e","l","e","t","e">>
ACTION_BUTTON1 == <<"b","u","t","t","o","n","1">>
ACTION_BUTTON2 == <<"b","u","t","t","o","n","2">>
ACTION_BUTTON3 == <<"b","u","t","t","o","n","3">>
ACTION_MEDIA_PLAY == <<"m","e","d","i","a","_","p","l","a","y">>
ACTION_MEDIA_PAUSE == <<"m","e","d","i","a","_","p","a","u","s","e">>
ACTION_MEDIA_NEXT == <<"m","e","d","i","a","_","n","e","x","t">>
ACTION_MEDIA_PREVIOUS == <<"m","e","d","i","a","_","p","r","e","v","i","o","u","s">>

Actions ==
  { ACTION_CLICK, ACTION_DELETE, ACTION_BUTTON1, ACTION_BUTTON2, ACTION_BUTTON3,
    ACTION_MEDIA_PLAY, ACTION_MEDIA_PAUSE, ACTION_MEDIA_NEXT, ACTION_MEDIA_PREVIOUS }

\* Python's None, for an absent ActionCallback.
None == "None"
\* The coroutine functions the caller binds: one of its own per notification.
Handler(o) == <<"H", o>>
Handlers == {Handler(o) : o \in Objs}
\* Button labels the caller uses ("" is the empty label).
Labels == {"", "OK"}

\* ------------------------------------------------------------ text helpers
Digit == {"0","1","2","3","4","5","6","7","8","9"}
Whitespace == {" ", "\t", "\n", "\r"}

DigitVal(ch) ==
  CASE ch = "0" -> 0 [] ch = "1" -> 1 [] ch = "2" -> 2 [] ch = "3" -> 3
    [] ch = "4" -> 4 [] ch = "5" -> 5 [] ch = "6" -> 6 [] ch = "7" -> 7
    [] ch = "8" -> 8 [] ch = "9" -> 9

DigitChar(d) ==
  CASE d = 0 -> "0" [] d = 1 -> "1" [] d = 2 -> "2" [] d = 3 -> "3"
    [] d = 4 -> "4" [] d = 5 -> "5" [] d = 6 -> "6" [] d = 7 -> "7"
    [] d = 8 -> "8" [] d = 9 -> "9"

\* str.split(sep) with an explicit one-character separator: a cut at every
\* occurrence, empty pieces kept.
RECURSIVE SplitFrom(_, _, _, _)
SplitFrom(s, sep, i, cur) ==
  IF i > Len(s) THEN <<cur>>
  ELSE IF s[i] = sep THEN <<cur>> \o SplitFrom(s, sep, i + 1, <<>>)
  ELSE SplitFrom(s, sep, i + 1, Append(cur, s[i]))

Split(s, sep) == SplitFrom(s, sep, 1, <<>>)

\* str.strip(): leading and trailing whitespace removed.
RECURSIVE LStrip(_)
LStrip(s) == IF s # <<>> /\ Head(s) \in Whitespace THEN LStrip(Tail(s)) ELSE s

RECURSIVE RStrip(_)
RStrip(s) ==
  IF s # <<>> /\ s[Len(s)] \in Whitespace THEN RStrip(SubSeq(s, 1, Len(s) - 1)) ELSE s

Strip(s) == RStrip(LStrip(s))

\* s[1:]
Slice1(s) == IF s = <<>> THEN <<>> ELSE Tail(s)

RECURSIVE DigitsValue(_, _)
DigitsValue(s, acc) ==
  IF s = <<>> THEN acc
  ELSE IF Head(s) = "_" THEN DigitsValue(Tail(s), acc)
  ELSE DigitsValue(Tail(s), 10 * acc + DigitVal(Head(s)))

\* The digit part of a decimal literal: digits, single underscores allowed
\* between digits only.
IsDigitBody(s) ==
  /\ s # <<>>
  /\ \A i \in 1..Len(s) : s[i] \in Digit \cup {"_"}
  /\ s[1] \in Digit
  /\ s[Len(s)] \in Digit
  /\ \A i \in 1..(Len(s) - 1) : ~(s[i] = "_" /\ s[i + 1] = "_")

\* int(str): surrounding whitespace ignored, an optional sign, a decimal
\* literal.  ok = FALSE stands for ValueError.
ParseInt(s) ==
  LET t == Strip(s)
      signed == t # <<>> /\ Head(t) \in {"+", "-"}
      body == IF signed THEN Tail(t) ELSE t
  IN  IF IsDigitBody(body)
      THEN [ok |-> TRUE,
            val |-> IF signed /\ Head(t) = "-" THEN 0 - DigitsValue(body, 0)
                    ELSE DigitsValue(body, 0)]
      ELSE [ok |-> FALSE, val |-> 0]

\* str(int)
RECURSIVE NatToStr(_)
NatToStr(n) ==
  IF n < 10 THEN <<DigitChar(n)>> ELSE NatToStr(n \div 10) \o <<DigitChar(n % 10)>>

IntToStr(n) == IF n < 0 THEN <<"-">> \o NatToStr(0 - n) ELSE NatToStr(n)

\* ------------------------------------------------------------ Notification
\* Notification.__init__ called with an id, a content, a style tag and the
\* ongoing flag, the other display attributes left at their defaults (empty
\* or False): every binding is empty or absent.
NewNotificationWith(n_id, n_type, ongoing) ==
  [ n_id |-> n_id, n_type |-> n_type, ongoing |-> ongoing,
    button1 |-> "", button2 |-> "", button3 |-> "",
    action_button1 |-> None, action_button2 |-> None, action_button3 |-> None,
    action_click |-> None, action_delete |-> None,
    action_media_play |-> None, action_media_pause |-> None,
    action_media_next |-> None, action_media_previous |-> None ]

\* Notification(n_id, content): style tag and ongoing flag at their defaults too.
NewNotification(n_id) == NewNotificationWith(n_id, <<>>, FALSE)

set_click_action(n, action_callback) == [n EXCEPT !.action_click = action_callback]

set_delete_action(n, action_callback) == [n EXCEPT !.action_delete = action_callback]

set_media_play_action(n, action_callback) ==
  [n EXCEPT !.action_media_play = action_callback]

set_media_pause_action(n, action_callback) ==
  [n EXCEPT !.action_media_pause = action_callback]

\* Defined twice in the class, with the same body; the second definition is
\* the one the class keeps.
set_media_next_action(n, action_callback) ==
  [n EXCEPT !.action_media_next = action_callback]

\* The branch that clears the slot, which the setter takes before its two
\* unconditional assignments.
ClearedOnEmpty(button_text, action_callback) == button_text = "" \/ action_callback = None

set_button1(n, button_text, action_callback) ==
  LET cleared == IF ClearedOnEmpty(button_text, action_callback)
                 THEN [n EXCEPT !.button1 = "", !.action_button1 = None]
                 ELSE n
  IN  [cleared EXCEPT !.button1 = button_text, !.action_button1 = action_callback]

set_button2(n, button_text, action_callback) ==
  LET cleared == IF ClearedOnEmpty(button_text, action_callback)
                 THEN [n EXCEPT !.button2 = "", !.action_button2 = None]
                 ELSE n
  IN  [cleared EXCEPT !.button2 = button_text, !.action_button2 = action_callback]

set_button3(n, button_text, action_callback) ==
  LET cleared == IF ClearedOnEmpty(button_text, action_callback)
                 THEN [n EXCEPT !.button3 = "", !.action_button3 = None]
                 ELSE n
  IN  [cleared EXCEPT !.button3 = button_text, !.action_button3 = action_callback]

\* ------------------------------------------------------------------- state
VARIABLES
  notif,             \* the Notification objects the caller holds
  notification_set,  \* NotificationManager.notification_set, as object references
  server,            \* NotificationManager.server: "None", or the state of the asyncio.Server
  conn,              \* where the coroutine serving each callback connection stands
  tasks,             \* the handler coroutines scheduled by asyncio.create_task (a bag)
  running,           \* external commands started by _run that have not finished
  last,              \* history: what the latest step was, when it read a request,
                     \* sent a notification or called a listener control; NoEvent
                     \* after any other step
  _nid,              \* NotificationManager._nid
  returned,          \* history: the values new_nid has returned, in call order
  cmd,               \* the display command the latest step handed to _run, if it did
  batch,             \* the removal commands of the latest remove_all_notifications,
                     \* by notification id: "running", "ok" or "failed"
  rpc,               \* where remove_all_notifications stands: "idle", "waiting", "returned"
  exitpc,            \* where the process stands: "running", "cleanup" (in
                     \* _on_exit_task), "done", or "raised" if _on_exit_task raised
  rt                 \* a callback address on its way from _curl_cmd to _callback_server

vars == <<notif, notification_set, server, conn, tasks, running, last,
          _nid, returned, cmd, batch, rpc, exitpc, rt>>

\* What the operations of the registry and the listener leave alone.
others == <<_nid, returned, batch, rpc, exitpc, rt>>

\* No address under way.
NoRoundTrip == [pc |-> "none", n_id |-> 0, action |-> <<>>, line |-> <<>>,
                ok |-> FALSE, got_id |-> 0, got_act |-> <<>>]

\* NotificationManager.__init__ for the counter, and nothing issued yet.
Fresh ==
  /\ _nid = 0
  /\ returned = <<>>
  /\ cmd = <<>>
  /\ batch = <<>>
  /\ rpc = "idle"
  /\ exitpc = "running"
  /\ rt = NoRoundTrip

\* The step hands no display command to _run and is none of the calls above.
NoCommand == cmd' = <<>> /\ UNCHANGED others

NoEvent == [op |-> "none", conn |-> 0, line |-> <<>>, found |-> 0, exc |-> None]

\* A request line read on connection c: the record the lookup found (0 for
\* none) and the exception that ended the coroutine, if one did.
RequestEvent(c, line, found, e) ==
  [op |-> "request", conn |-> c, line |-> line, found |-> found, exc |-> e]

\* A call of send_notification and the live record its discard removed (0
\* for none).
SendEvent(replaced) ==
  [op |-> "send", conn |-> 0, line |-> <<>>, found |-> replaced, exc |-> None]

\* A call of start_callback_server or stop_callback_server and what it raised.
ControlEvent(op, e) == [op |-> op, conn |-> 0, line |-> <<>>, found |-> 0, exc |-> e]

\* ------------------------------------------------- the live set (a Python set)
\* Notification.__eq__ and __hash__ compare n_id alone.
NotificationEq(a, b) == notif[a].n_id = notif[b].n_id

\* set.discard(x): the element equal to x, if any, is removed.
SetDiscard(S, x) == {y \in S : ~NotificationEq(y, x)}

\* set.add(x): x is inserted unless an equal element is present already.
SetAdd(S, x) == IF \E y \in S : NotificationEq(y, x) THEN S ELSE S \cup {x}

\* ------------------------------------------------------- callback addresses
\* ActionId writing the id without its sign.
ActionIdUnsigned(n_id, action) ==
  NatToStr(IF n_id < 0 THEN -n_id ELSE n_id) \o <<":">> \o action

\* The action id _notification_cmd formats for a callback: f"{n.n_id}:{ACTION}".
ActionId(n_id, action) == IntToStr(n_id) \o <<":">> \o action

\* The path of the URL _curl_cmd builds, http://localhost/{action_id}.
CurlPath(action_id) == <<"/">> \o action_id

\* _curl_cmd(action_id): the curl command for the URL.  The model keeps the
\* URL; the words before it are the same in every command, and shlex.join
\* quotes none of the characters a URL for an integer id and an action holds.
Localhost == <<"h","t","t","p",":","/","/","l","o","c","a","l","h","o","s","t">>

CurlCmd(action_id) == Localhost \o CurlPath(action_id)

\* The request line curl sends for that URL.
GET == <<"G","E","T">>
HTTP11 == <<"H","T","T","P","/","1",".","1">>
CRLF == <<"\r","\n">>
SP == <<" ">>

RequestLine(path) == GET \o SP \o path \o SP \o HTTP11 \o CRLF

\* ---------------------------------------------------------------- dispatch
\* HandlerFor with the button 2 branch reading button 1's handler.
HandlerForButtonSlip(n, action) ==
  IF action = ACTION_CLICK /\ n.action_click # None THEN n.action_click
  ELSE IF action = ACTION_DELETE /\ n.action_delete # None THEN n.action_delete
  ELSE IF action = ACTION_MEDIA_PLAY /\ n.action_media_play # None THEN n.action_media_play
  ELSE IF action = ACTION_MEDIA_PAUSE /\ n.action_media_pause # None THEN n.action_media_pause
  ELSE IF action = ACTION_MEDIA_NEXT /\ n.action_media_next # None THEN n.action_media_next
  ELSE IF action = ACTION_MEDIA_PREVIOUS /\ n.action_media_previous # None
    THEN n.action_media_previous
  ELSE IF action = ACTION_BUTTON1 /\ n.action_button1 # None THEN n.action_button1
  ELSE IF action = ACTION_BUTTON2 /\ n.action_button1 # None THEN n.action_button1
  ELSE IF action = ACTION_BUTTON3 /\ n.action_button3 # None THEN n.action_button3
  ELSE None

\* The if/elif chain of _on_action_callback: the handler it schedules for
\* `action` on record n, None when no branch is taken.
HandlerFor(n, action) ==
  IF action = ACTION_CLICK /\ n.action_click # None THEN n.action_click
  ELSE IF action = ACTION_DELETE /\ n.action_delete # None THEN n.action_delete
  ELSE IF action = ACTION_MEDIA_PLAY /\ n.action_media_play # None THEN n.action_media_play
  ELSE IF action = ACTION_MEDIA_PAUSE /\ n.action_media_pause # None THEN n.action_media_pause
  ELSE IF action = ACTION_MEDIA_NEXT /\ n.action_media_next # None THEN n.action_media_next
  ELSE IF action = ACTION_MEDIA_PREVIOUS /\ n.action_media_previous # None
    THEN n.action_media_previous
  ELSE IF action = ACTION_BUTTON1 /\ n.action_button1 # None THEN n.action_button1
  ELSE IF action = ACTION_BUTTON2 /\ n.action_button2 # None THEN n.action_button2
  ELSE IF action = ACTION_BUTTON3 /\ n.action_button3 # None THEN n.action_button3
  ELSE None

\* IsTerminal with the delete action left out of the list.
IsTerminalClickOnly(action) == action = ACTION_CLICK

\* The actions after which _on_action_callback discards the record.
IsTerminal(action) == action \in {ACTION_CLICK, ACTION_DELETE}

\* Matching with the loop stopping at the first record, whatever its id.
MatchingAny(nid) == notification_set

\* The records the lookup loop can stop at.
Matching(nid) == {o \in notification_set : notif[o].n_id = nid}

\* AfterDispatch with the discard done after every action.
AfterDispatchAlways(o, action) == SetDiscard(notification_set, o)

\* AfterDispatch with no discard after any action.
AfterDispatchNever(o, action) == notification_set

\* The live set after the dispatch of `action` to the record o it found.
AfterDispatch(o, action) ==
  IF IsTerminal(action) THEN SetDiscard(notification_set, o) ELSE notification_set

\* A task running `handler`, scheduled for `action` on record o.
Task(o, action, handler, st) ==
  [n |-> o, action |-> action, handler |-> handler, st |-> st]

\* asyncio.create_task(handler()): one more pending task running the handler
\* bound for `action` on record o.
CreateTask(o, action) ==
  tasks (+) SetToBag({Task(o, action, HandlerFor(notif[o], action), "pending")})

\* _on_action_callback(nid, action).  It has no suspension point, so it is
\* part of the step of the connection that calls it.  `found` is the record
\* the lookup stopped at, 0 when the loop ran out.
OnActionCallback(nid, action, found) ==
  IF Matching(nid) = {}
  THEN /\ found = 0
       /\ UNCHANGED <<notification_set, tasks>>
  ELSE /\ found \in Matching(nid)
       /\ tasks' = IF HandlerFor(notif[found], action) # None
                   THEN CreateTask(found, action)
                   ELSE tasks
       /\ notification_set' = AfterDispatch(found, action)

\* ------------------------------------------------- the caller's notifications
\* A notification with a click handler and a labelled button, as the
\* module's own __main builds one with its setters.
WithClickAndButton(n_id, h) ==
  set_button1(set_click_action(NewNotification(n_id), h), "OK", h)

\* The notifications the caller may have built as its o-th: it carries an id
\* of its own, or the first one's id again (to replace it).
Built(o) == {WithClickAndButton(i, Handler(o)) : i \in {1, o}}

\* The requests the external service makes, over a bound and an unbound
\* action of each kind (terminal or not).
CallbackActions == {ACTION_CLICK, ACTION_DELETE, ACTION_BUTTON1, ACTION_BUTTON2}

CallbackLines ==
  {RequestLine(CurlPath(ActionId(i, a))) : i \in Objs, a \in CallbackActions}

\* Request lines _callback_server cannot take apart, or whose action is none
\* of the nine.
MalformedLines ==
  { <<>>,                                                     \* end of file, no line
    GET \o SP \o CurlPath(ActionId(1, ACTION_CLICK)) \o CRLF,       \* two parts
    GET \o SP \o SP \o CurlPath(ActionId(1, ACTION_CLICK)) \o SP \o HTTP11 \o CRLF,
    RequestLine(<<"/","1">> \o ACTION_CLICK),                       \* no colon
    RequestLine(CurlPath(ActionId(1, ACTION_CLICK)) \o <<":","x">>), \* two colons
    RequestLine(<<"/","x",":">> \o ACTION_CLICK),                   \* id no number
    RequestLine(<<"/",":">> \o ACTION_CLICK),                       \* id empty
    RequestLine(ActionId(1, ACTION_CLICK)),                         \* no slash
    RequestLine(<<"/","1",":","b","o","g","u","s">>),               \* unknown action
    RequestLine(<<"/","1",":","C","l","i","c","k">>) }              \* unknown action

\* Request lines curl would not send that _callback_server takes apart all
\* the same: the first character of the path is dropped unread, and int()
\* takes a sign, leading zeros and an underscore.
LenientLines ==
  { RequestLine(<<"x">> \o ActionId(1, ACTION_BUTTON1)),
    RequestLine(<<"/","+">> \o ActionId(1, ACTION_BUTTON1)),
    RequestLine(<<"/","0">> \o ActionId(1, ACTION_CLICK)),
    RequestLine(<<"/","1","_","0",":">> \o ACTION_CLICK) }

AllLines == CallbackLines \cup MalformedLines \cup LenientLines


\* ------------------------------------------------------------ the listener
\* What _callback_server makes of the request line: the (n_id, n_act) pair,
\* or ok = FALSE when one of its unpackings or int() raises ValueError.
ParseRequest(line) ==
  LET parts == Split(line, " ")
      pieces == Split(parts[2], ":")
      num == ParseInt(Slice1(pieces[1]))
  IN  IF Len(parts) # 3 THEN [ok |-> FALSE, n_id |-> 0, n_act |-> <<>>]
      ELSE IF Len(pieces) # 2 THEN [ok |-> FALSE, n_id |-> 0, n_act |-> <<>>]
      ELSE IF ~num.ok THEN [ok |-> FALSE, n_id |-> 0, n_act |-> <<>>]
      ELSE [ok |-> TRUE, n_id |-> num.val, n_act |-> pieces[2]]

\* ParseRequest, computed once for each line the model sends.
Parsed == [line \in AllLines |-> ParseRequest(line)]

is_serving == IF server # "None" THEN server = "serving" ELSE FALSE

\* A client connects to the listener's socket; the loop starts a
\* _callback_server coroutine for it, which waits in readline().
Connect(c) ==
  /\ is_serving
  /\ conn[c] = "idle"
  /\ \A d \in Conns : d < c => conn[d] # "idle"
  /\ conn' = [conn EXCEPT ![c] = "reading"]
  /\ last' = NoEvent
  /\ UNCHANGED <<notif, notification_set, server, tasks, running>>
  /\ NoCommand

\* _callback_server from the return of readline(), with `line`, to its await
\* of drain(): the request is parsed and dispatched and the response is
\* written.  A ValueError ends the coroutine before anything is written.
CallbackServer(c, line) ==
  /\ conn[c] = "reading"
  /\ LET req == Parsed[line]
     IN  IF req.ok
         THEN \E found \in Objs \cup {0} :
                /\ OnActionCallback(req.n_id, req.n_act, found)
                /\ conn' = [conn EXCEPT ![c] = "draining"]
                /\ last' = RequestEvent(c, line, found, None)
         ELSE /\ conn' = [conn EXCEPT ![c] = "failed"]
              /\ last' = RequestEvent(c, line, 0, "ValueError")
              /\ UNCHANGED <<notification_set, tasks>>
  /\ UNCHANGED <<notif, server, running>>
  /\ NoCommand

\* CloseConnection for a dispatcher that awaits the handlers it schedules.
CloseConnectionAwaitingHandlers(c) ==
  /\ conn[c] = "draining"
  /\ \A t \in BagToSet(tasks) : t.st # "pending"
  /\ conn' = [conn EXCEPT ![c] = "closed"]
  /\ last' = NoEvent
  /\ UNCHANGED <<notif, notification_set, server, tasks, running>>
  /\ NoCommand

\* drain() returns and the writer is closed.
CloseConnection(c) ==
  /\ conn[c] = "draining"
  /\ conn' = [conn EXCEPT ![c] = "closed"]
  /\ last' = NoEvent
  /\ UNCHANGED <<notif, notification_set, server, tasks, running>>
  /\ NoCommand

\* The bag of tasks with the pending task t ended in state st.
TaskEnds(t, st) == (tasks (-) SetToBag({t})) (+) SetToBag({[t EXCEPT !.st = st]})

\* A scheduled handler coroutine runs to its end, ...
HandlerReturns(t) ==
  /\ t.st = "pending"
  /\ tasks' = TaskEnds(t, "done")
  /\ last' = NoEvent
  /\ UNCHANGED <<notif, notification_set, server, conn, running>>
  /\ NoCommand

\* ... or raises: the exception stays in the task nobody awaits.
HandlerRaises(t) ==
  /\ t.st = "pending"
  /\ tasks' = TaskEnds(t, "failed")
  /\ last' = NoEvent
  /\ UNCHANGED <<notif, notification_set, server, conn, running>>
  /\ NoCommand

\* ------------------------------------------------------------- the manager
\* One argument of the display command: a flag and the value after it (empty
\* for a flag that stands alone).
Arg(flag, value) == [flag |-> flag, value |-> value]

\* The characters of a button label.
Chars(text) == IF text = "OK" THEN <<"O","K">> ELSE <<>>

MEDIA == <<"m","e","d","i","a">>
CONTENT == <<"h","i">>

\* args.extend / args.append under its condition, or nothing.
When(cond, arg) == IF cond THEN <<arg>> ELSE <<>>

\* NotificationCmd wiring click and delete only when a handler is bound.
NotificationCmdBoundOnly(n) ==
     <<Arg("--id", IntToStr(n.n_id)), Arg("--content", CONTENT)>>
  \o When(n.n_type # <<>>, Arg("--type", n.n_type))
  \o When(n.ongoing, Arg("--ongoing", <<>>))
  \o When(n.action_click # None,
          Arg("--action", CurlCmd(ActionId(n.n_id, ACTION_CLICK))))
  \o When(n.action_delete # None,
          Arg("--on-delete", CurlCmd(ActionId(n.n_id, ACTION_DELETE))))
  \o When(n.n_type = MEDIA /\ n.action_media_play # None,
          Arg("--media-play", CurlCmd(ActionId(n.n_id, ACTION_MEDIA_PLAY))))
  \o When(n.n_type = MEDIA /\ n.action_media_pause # None,
          Arg("--media-pause", CurlCmd(ActionId(n.n_id, ACTION_MEDIA_PAUSE))))
  \o When(n.n_type = MEDIA /\ n.action_media_next # None,
          Arg("--media-next", CurlCmd(ActionId(n.n_id, ACTION_MEDIA_NEXT))))
  \o When(n.n_type = MEDIA /\ n.action_media_previous # None,
          Arg("--media-previous", CurlCmd(ActionId(n.n_id, ACTION_MEDIA_PREVIOUS))))
  \o When(n.button1 # "", Arg("--button1", Chars(n.button1)))
  \o When(n.button2 # "", Arg("--button2", Chars(n.button2)))
  \o When(n.button3 # "", Arg("--button3", Chars(n.button3)))
  \o When(n.action_button1 # None,
          Arg("--button1-action", CurlCmd(ActionId(n.n_id, ACTION_BUTTON1))))
  \o When(n.action_button2 # None,
          Arg("--button2-action", CurlCmd(ActionId(n.n_id, ACTION_BUTTON2))))
  \o When(n.action_button3 # None,
          Arg("--button3-action", CurlCmd(ActionId(n.n_id, ACTION_BUTTON3))))

\* NotificationCmd wiring a button's action only when the button has a label.
NotificationCmdLabelledButtons(n) ==
     <<Arg("--id", IntToStr(n.n_id)), Arg("--content", CONTENT)>>
  \o When(n.n_type # <<>>, Arg("--type", n.n_type))
  \o When(n.ongoing, Arg("--ongoing", <<>>))
  \o When(n.action_click # None \/ ~n.ongoing,
          Arg("--action", CurlCmd(ActionId(n.n_id, ACTION_CLICK))))
  \o When(n.action_delete # None \/ ~n.ongoing,
          Arg("--on-delete", CurlCmd(ActionId(n.n_id, ACTION_DELETE))))
  \o When(n.n_type = MEDIA /\ n.action_media_play # None,
          Arg("--media-play", CurlCmd(ActionId(n.n_id, ACTION_MEDIA_PLAY))))
  \o When(n.n_type = MEDIA /\ n.action_media_pause # None,
          Arg("--media-pause", CurlCmd(ActionId(n.n_id, ACTION_MEDIA_PAUSE))))
  \o When(n.n_type = MEDIA /\ n.action_media_next # None,
          Arg("--media-next", CurlCmd(ActionId(n.n_id, ACTION_MEDIA_NEXT))))
  \o When(n.n_type = MEDIA /\ n.action_media_previous # None,
          Arg("--media-previous", CurlCmd(ActionId(n.n_id, ACTION_MEDIA_PREVIOUS))))
  \o When(n.button1 # "", Arg("--button1", Chars(n.button1)))
  \o When(n.button2 # "", Arg("--button2", Chars(n.button2)))
  \o When(n.button3 # "", Arg("--button3", Chars(n.button3)))
  \o When(n.button1 # "" /\ n.action_button1 # None,
          Arg("--button1-action", CurlCmd(ActionId(n.n_id, ACTION_BUTTON1))))
  \o When(n.button2 # "" /\ n.action_button2 # None,
          Arg("--button2-action", CurlCmd(ActionId(n.n_id, ACTION_BUTTON2))))
  \o When(n.button3 # "" /\ n.action_button3 # None,
          Arg("--button3-action", CurlCmd(ActionId(n.n_id, ACTION_BUTTON3))))

\* _notification_cmd(n): the arguments of the display command, in the order
\* the code adds them.  The attributes the model's notifications leave at
\* their defaults (title, group, priority, alert_once, sound, image_path,
\* icon, vibrate) add nothing.  shlex.join, which makes one string of the
\* arguments, is not applied.
NotificationCmd(n) ==
     <<Arg("--id", IntToStr(n.n_id)), Arg("--content", CONTENT)>>
  \o When(n.n_type # <<>>, Arg("--type", n.n_type))
  \o When(n.ongoing, Arg("--ongoing", <<>>))
  \o When(n.action_click # None \/ ~n.ongoing,
          Arg("--action", CurlCmd(ActionId(n.n_id, ACTION_CLICK))))
  \o When(n.action_delete # None \/ ~n.ongoing,
          Arg("--on-delete", CurlCmd(ActionId(n.n_id, ACTION_DELETE))))
  \o When(n.n_type = MEDIA /\ n.action_media_play # None,
          Arg("--media-play", CurlCmd(ActionId(n.n_id, ACTION_MEDIA_PLAY))))
  \o When(n.n_type = MEDIA /\ n.action_media_pause # None,
          Arg("--media-pause", CurlCmd(ActionId(n.n_id, ACTION_MEDIA_PAUSE))))
  \o When(n.n_type = MEDIA /\ n.action_media_next # None,
          Arg("--media-next", CurlCmd(ActionId(n.n_id, ACTION_MEDIA_NEXT))))
  \o When(n.n_type = MEDIA /\ n.action_media_previous # None,
          Arg("--media-previous", CurlCmd(ActionId(n.n_id, ACTION_MEDIA_PREVIOUS))))
  \o When(n.button1 # "", Arg("--button1", Chars(n.button1)))
  \o When(n.button2 # "", Arg("--button2", Chars(n.button2)))
  \o When(n.button3 # "", Arg("--button3", Chars(n.button3)))
  \o When(n.action_button1 # None,
          Arg("--button1-action", CurlCmd(ActionId(n.n_id, ACTION_BUTTON1))))
  \o When(n.action_button2 # None,
          Arg("--button2-action", CurlCmd(ActionId(n.n_id, ACTION_BUTTON2))))
  \o When(n.action_button3 # None,
          Arg("--button3-action", CurlCmd(ActionId(n.n_id, ACTION_BUTTON3))))

\* The live record send_notification's discard removes: the one equal to o.
Replaced(o) ==
  LET equal == {y \in notification_set : NotificationEq(y, o)}
  IN  IF equal = {} THEN 0 ELSE CHOOSE y \in equal : TRUE

\* SendNotification without the discard: add() keeps the record already
\* in the set.
SendNotificationNoDiscard(o) ==
  /\ running < MaxRunning
  /\ notification_set' = SetAdd(notification_set, o)
  /\ running' = running + 1
  /\ last' = SendEvent(Replaced(o))
  /\ UNCHANGED <<notif, server, conn, tasks>>
  /\ cmd' = NotificationCmd(notif[o])
  /\ UNCHANGED others

\* SendNotification suspended between its discard and its add when it
\* replaces a live record: the step that starts the command leaves the id
\* without a record.
SendNotificationDiscardOnly(o) ==
  /\ running < MaxRunning
  /\ notification_set' = IF \E y \in notification_set : NotificationEq(y, o)
                         THEN SetDiscard(notification_set, o)
                         ELSE SetAdd(notification_set, o)
  /\ running' = running + 1
  /\ last' = SendEvent(Replaced(o))
  /\ UNCHANGED <<notif, server, conn, tasks>>
  /\ cmd' = NotificationCmd(notif[o])
  /\ UNCHANGED others

\* send_notification up to its await of _run: the record replaces the live
\* one with its id and the display command is started.
SendNotification(o) ==
  /\ running < MaxRunning
  /\ notification_set' = SetAdd(SetDiscard(notification_set, o), o)
  /\ running' = running + 1
  /\ last' = SendEvent(Replaced(o))
  /\ UNCHANGED <<notif, server, conn, tasks>>
  /\ cmd' = NotificationCmd(notif[o])
  /\ UNCHANGED others

\* remove_notification up to its await of _run.
RemoveNotification(o) ==
  /\ running < MaxRunning
  /\ notification_set' = SetDiscard(notification_set, o)
  /\ running' = running + 1
  /\ last' = NoEvent
  /\ UNCHANGED <<notif, server, conn, tasks>>
  /\ NoCommand

\* An external command finishes and the call awaiting it returns.
RunReturns ==
  /\ running > 0
  /\ running' = running - 1
  /\ last' = NoEvent
  /\ UNCHANGED <<notif, notification_set, server, conn, tasks>>
  /\ NoCommand

\* start_callback_server: asyncio.start_unix_server unlinks a socket file
\* left at socketpath, binds a new Server there and self.server names it;
\* start_serving() makes it listen.  A Server started earlier and not
\* closed is no longer reachable through socketpath.
StartCallbackServer ==
  /\ server' = "serving"
  /\ last' = ControlEvent("start", None)
  /\ UNCHANGED <<notif, notification_set, conn, tasks, running>>
  /\ NoCommand

\* StopCallbackServer cancelling the handler tasks still pending.
StopCallbackServerCancelling ==
  /\ IF server = "None"
     THEN /\ last' = ControlEvent("stop", "AttributeError")
          /\ UNCHANGED server
     ELSE /\ server' = "closed"
          /\ last' = ControlEvent("stop", None)
  /\ tasks' = [t \in {x \in BagToSet(tasks) : x.st # "pending"} |-> tasks[t]]
  /\ UNCHANGED <<notif, notification_set, conn, running>>
  /\ NoCommand

\* stop_callback_server: self.server.close().  With self.server None the
\* attribute lookup raises AttributeError; Server.close() on a closed Server
\* returns at once.
StopCallbackServer ==
  /\ IF server = "None"
     THEN /\ last' = ControlEvent("stop", "AttributeError")
          /\ UNCHANGED server
     ELSE /\ server' = "closed"
          /\ last' = ControlEvent("stop", None)
  /\ UNCHANGED <<notif, notification_set, conn, tasks, running>>
  /\ NoCommand

\* ------------------------------------------------------------ specification
\* NotificationManager.__init__, with the caller's notifications built.
Init ==
  /\ notif \in [Objs -> UNION {Built(o) : o \in Objs}]
  /\ \A o \in Objs : notif[o] \in Built(o)
  /\ notification_set = {}
  /\ server = "None"
  /\ conn = [c \in Conns |-> "idle"]
  /\ tasks = EmptyBag
  /\ running = 0
  /\ last = NoEvent
  /\ Fresh

Next ==
  \/ \E o \in Objs : SendNotification(o)
  \/ \E o \in Objs : RemoveNotification(o)
  \/ RunReturns
  \/ StartCallbackServer
  \/ StopCallbackServer
  \/ \E c \in Conns : Connect(c)
  \/ \E c \in Conns, line \in CallbackLines : CallbackServer(c, line)
  \/ \E c \in Conns : CloseConnection(c)
  \/ \E t \in BagToSet(tasks) : HandlerReturns(t)
  \/ \E t \in BagToSet(tasks) : HandlerRaises(t)

\* The whole manager: every operation, from construction.
Spec == Init /\ [][Next]_vars

\* The registry and the dispatcher behind a listener that has been started:
\* the state after `await nm.start_callback_server()`, then sends, removals
\* and callback requests in any order.
ServingInit ==
  /\ notif \in [Objs -> UNION {Built(o) : o \in Objs}]
  /\ \A o \in Objs : notif[o] \in Built(o)
  /\ notification_set = {}
  /\ server = "serving"
  /\ conn = [c \in Conns |-> "idle"]
  /\ tasks = EmptyBag
  /\ running = 0
  /\ last = ControlEvent("start", None)
  /\ Fresh

\* The requests name the ids the caller's notifications carry, live or not;
\* the connections stay open after their response (closing them touches
\* neither the live set nor the tasks).
NextRegistry ==
  \/ \E o \in Objs : SendNotification(o)
  \/ \E o \in Objs : RemoveNotification(o)
  \/ RunReturns
  \/ \E c \in Conns : Connect(c)
  \/ \E c \in Conns, line \in CallbackLines :
       /\ Parsed[line].n_id \in {notif[o].n_id : o \in Objs}
       /\ CallbackServer(c, line)

SpecRegistry == ServingInit /\ [][NextRegistry]_vars

\* The state the sends of every notification, in the order built, leave.
RECURSIVE SentUpTo(_)
SentUpTo(k) == IF k = 0 THEN {} ELSE SetAdd(SetDiscard(SentUpTo(k - 1), k), k)

\* Every notification sent and its display command finished, the listener
\* not started yet.
SentInit ==
  /\ notif \in [Objs -> UNION {Built(o) : o \in Objs}]
  /\ \A o \in Objs : notif[o] \in Built(o)
  /\ notification_set = SentUpTo(MaxObjs)
  /\ server = "None"
  /\ conn = [c \in Conns |-> "idle"]
  /\ tasks = EmptyBag
  /\ running = 0
  /\ last = NoEvent
  /\ Fresh

\* The listener's life: starts and stops, connections carrying any request
\* line, and the handlers they schedule.
NextListener ==
  \/ StartCallbackServer
  \/ StopCallbackServer
  \/ \E c \in Conns : Connect(c)
  \/ \E c \in Conns, line \in AllLines : CallbackServer(c, line)
  \/ \E c \in Conns : CloseConnection(c)
  \/ \E t \in BagToSet(tasks) : HandlerReturns(t)
  \/ \E t \in BagToSet(tasks) : HandlerRaises(t)

SpecListener == SentInit /\ [][NextListener]_vars

\* The same with the listener started, limited to the requests the external
\* service makes.  The loop resumes a coroutine whose drain() has completed,
\* so a response once written is followed by the close; nothing makes a
\* handler finish.
ListeningInit ==
  /\ notif \in [Objs -> UNION {Built(o) : o \in Objs}]
  /\ \A o \in Objs : notif[o] \in Built(o)
  /\ notification_set = SentUpTo(MaxObjs)
  /\ server = "serving"
  /\ conn = [c \in Conns |-> "idle"]
  /\ tasks = EmptyBag
  /\ running = 0
  /\ last = ControlEvent("start", None)
  /\ Fresh

NextDispatch ==
  \/ \E c \in Conns : Connect(c)
  \/ \E c \in Conns, line \in CallbackLines : CallbackServer(c, line)
  \/ \E c \in Conns : CloseConnection(c)
  \/ \E t \in BagToSet(tasks) : HandlerReturns(t)
  \/ \E t \in BagToSet(tasks) : HandlerRaises(t)

SpecFair ==
  /\ ListeningInit
  /\ [][NextDispatch]_vars
  /\ \A c \in Conns : WF_vars(CloseConnection(c))

\* One click per notification: the notifications carry ids of their own, all
\* are live, and connection c brings the click of the c-th id.
ClickTarget(c) == ((c - 1) % MaxObjs) + 1

IsolationInit ==
  /\ \E ids \in [Objs -> Objs] :
       /\ \A o, q \in Objs : ids[o] = ids[q] => o = q
       /\ notif = [o \in Objs |-> WithClickAndButton(ids[o], Handler(o))]
  /\ notification_set = SentUpTo(MaxObjs)
  /\ server = "serving"
  /\ conn = [c \in Conns |-> "idle"]
  /\ tasks = EmptyBag
  /\ running = 0
  /\ last = ControlEvent("start", None)
  /\ Fresh

NextIsolation ==
  \/ \E c \in Conns : Connect(c)
  \/ \E c \in Conns : CallbackServer(c, RequestLine(CurlPath(ActionId(ClickTarget(c), ACTION_CLICK))))
  \/ \E c \in Conns : CloseConnection(c)
  \/ \E t \in BagToSet(tasks) : HandlerReturns(t)
  \/ \E t \in BagToSet(tasks) : HandlerRaises(t)

SpecIsolation == IsolationInit /\ [][NextIsolation]_vars

\* The caller building one notification with the setters.
Building == CHOOSE o \in Objs : \A q \in Objs : o <= q

Callbacks == {None, Handler(Building)}

SetClickAction(cb) ==
  /\ notif' = [notif EXCEPT ![Building] = set_click_action(@, cb)]
  /\ UNCHANGED <<notification_set, server, conn, tasks, running, last>>
  /\ NoCommand

SetDeleteAction(cb) ==
  /\ notif' = [notif EXCEPT ![Building] = set_delete_action(@, cb)]
  /\ UNCHANGED <<notification_set, server, conn, tasks, running, last>>
  /\ NoCommand

SetMediaPlayAction(cb) ==
  /\ notif' = [notif EXCEPT ![Building] = set_media_play_action(@, cb)]
  /\ UNCHANGED <<notification_set, server, conn, tasks, running, last>>
  /\ NoCommand

SetMediaPauseAction(cb) ==
  /\ notif' = [notif EXCEPT ![Building] = set_media_pause_action(@, cb)]
  /\ UNCHANGED <<notification_set, server, conn, tasks, running, last>>
  /\ NoCommand

SetMediaNextAction(cb) ==
  /\ notif' = [notif EXCEPT ![Building] = set_media_next_action(@, cb)]
  /\ UNCHANGED <<notification_set, server, conn, tasks, running, last>>
  /\ NoCommand

\* n.set_media_previous_action(cb): the class defines set_media_next_action a
\* second time where this setter would stand, so the attribute lookup raises
\* AttributeError and nothing is bound.
SetMediaPreviousAction(cb) ==
  /\ last' = ControlEvent("set_media_previous_action", "AttributeError")
  /\ UNCHANGED <<notif, notification_set, server, conn, tasks, running>>
  /\ NoCommand

SetButton1(text, cb) ==
  /\ notif' = [notif EXCEPT ![Building] = set_button1(@, text, cb)]
  /\ UNCHANGED <<notification_set, server, conn, tasks, running, last>>
  /\ NoCommand

SetButton2(text, cb) ==
  /\ notif' = [notif EXCEPT ![Building] = set_button2(@, text, cb)]
  /\ UNCHANGED <<notification_set, server, conn, tasks, running, last>>
  /\ NoCommand

SetButton3(text, cb) ==
  /\ notif' = [notif EXCEPT ![Building] = set_button3(@, text, cb)]
  /\ UNCHANGED <<notification_set, server, conn, tasks, running, last>>
  /\ NoCommand

\* Notification.__init__ for every object, beside a new manager.
NotificationInit ==
  /\ notif \in [Objs -> {NewNotification(i) : i \in Objs}]
  /\ notification_set = {}
  /\ server = "None"
  /\ conn = [c \in Conns |-> "idle"]
  /\ tasks = EmptyBag
  /\ running = 0
  /\ last = NoEvent
  /\ Fresh

\* The setters the class has.
NextSetters ==
  \/ \E cb \in Callbacks : SetClickAction(cb)
  \/ \E cb \in Callbacks : SetDeleteAction(cb)
  \/ \E cb \in Callbacks : SetMediaPlayAction(cb)
  \/ \E cb \in Callbacks : SetMediaPauseAction(cb)
  \/ \E cb \in Callbacks : SetMediaNextAction(cb)
  \/ \E text \in Labels, cb \in Callbacks : SetButton1(text, cb)
  \/ \E text \in Labels, cb \in Callbacks : SetButton2(text, cb)
  \/ \E text \in Labels, cb \in Callbacks : SetButton3(text, cb)

NextNotification ==
  \/ NextSetters
  \/ \E cb \in Callbacks : SetMediaPreviousAction(cb)

SpecNotification == NotificationInit /\ [][NextNotification]_vars

\* ------------------------------------------------------------------ new_nid
\* new_nid handing out the counter's value before it adds one.
NewNidReturnsOld ==
  /\ _nid < MaxIds
  /\ _nid' = _nid + 1
  /\ returned' = Append(returned, _nid)
  /\ last' = NoEvent
  /\ cmd' = <<>>
  /\ UNCHANGED <<notif, notification_set, server, conn, tasks, running, batch, rpc, exitpc, rt>>

\* new_nid: self._nid += 1; return self._nid.
NewNid ==
  /\ _nid < MaxIds
  /\ _nid' = _nid + 1
  /\ returned' = Append(returned, _nid')
  /\ last' = NoEvent
  /\ cmd' = <<>>
  /\ UNCHANGED <<notif, notification_set, server, conn, tasks, running, batch, rpc, exitpc, rt>>

\* A new manager beside notifications with ids of their own; ids are asked
\* for between sends, removals, listener controls and click requests.
IdsInit ==
  /\ notif = [o \in Objs |-> WithClickAndButton(o, Handler(o))]
  /\ notification_set = {}
  /\ server = "None"
  /\ conn = [c \in Conns |-> "idle"]
  /\ tasks = EmptyBag
  /\ running = 0
  /\ last = NoEvent
  /\ Fresh

NextIds ==
  \/ NewNid
  \/ \E o \in Objs : SendNotification(o)
  \/ \E o \in Objs : RemoveNotification(o)
  \/ RunReturns
  \/ StartCallbackServer
  \/ StopCallbackServer
  \/ \E c \in Conns : Connect(c)
  \/ \E c \in Conns, o \in Objs :
       CallbackServer(c, RequestLine(CurlPath(ActionId(notif[o].n_id, ACTION_CLICK))))
  \/ \E c \in Conns : CloseConnection(c)

SpecIds == IdsInit /\ [][NextIds]_vars

\* ------------------------------------------- bulk removal and exit cleanup
\* The ids of the live notifications.
LiveIds == {notif[o].n_id : o \in notification_set}

\* The list remove_all_notifications builds: one _run of the removal command
\* for the id of each member of the live set; gather starts them all.
RemovalCommands == [i \in LiveIds |-> "running"]

\* Every removal command of the batch has finished.
BatchFinished == \A i \in DOMAIN batch : batch[i] # "running"

\* RemoveAllNotifications emptying the live set as it issues the commands.
RemoveAllNotificationsClearing ==
  /\ exitpc = "running"
  /\ rpc # "waiting"
  /\ batch' = RemovalCommands
  /\ rpc' = "waiting"
  /\ notification_set' = {}
  /\ last' = NoEvent
  /\ cmd' = <<>>
  /\ UNCHANGED <<notif, server, conn, tasks, running, _nid, returned, exitpc, rt>>

\* remove_all_notifications up to its await of gather.
RemoveAllNotifications ==
  /\ exitpc = "running"
  /\ rpc # "waiting"
  /\ batch' = RemovalCommands
  /\ rpc' = "waiting"
  /\ last' = NoEvent
  /\ cmd' = <<>>
  /\ UNCHANGED <<notif, notification_set, server, conn, tasks, running, _nid, returned, exitpc, rt>>

\* One removal command of the batch ends and its _run returns, whatever the
\* command's exit status: _run does not look at it.
RemovalEnds(i, st) ==
  /\ rpc = "waiting"
  /\ i \in DOMAIN batch
  /\ batch[i] = "running"
  /\ batch' = [batch EXCEPT ![i] = st]
  /\ last' = NoEvent
  /\ cmd' = <<>>
  /\ UNCHANGED <<notif, notification_set, server, conn, tasks, running, _nid, returned, rpc, exitpc, rt>>

RemovalSucceeds(i) == RemovalEnds(i, "ok")

RemovalFails(i) == RemovalEnds(i, "failed")

\* RemoveAllReturns for a gather that gives up at the first failure.
RemoveAllReturnsAtFirstFailure ==
  /\ rpc = "waiting"
  /\ BatchFinished \/ \E i \in DOMAIN batch : batch[i] = "failed"
  /\ rpc' = "returned"
  /\ exitpc' = IF exitpc = "cleanup" THEN "done" ELSE exitpc
  /\ last' = NoEvent
  /\ cmd' = <<>>
  /\ UNCHANGED <<notif, notification_set, server, conn, tasks, running, _nid, returned, batch, rt>>

\* gather completes when every _run has returned; remove_all_notifications
\* returns, and with it asyncio.run and _on_exit_task when they made the call.
RemoveAllReturns ==
  /\ rpc = "waiting"
  /\ BatchFinished
  /\ rpc' = "returned"
  /\ exitpc' = IF exitpc = "cleanup" THEN "done" ELSE exitpc
  /\ last' = NoEvent
  /\ cmd' = <<>>
  /\ UNCHANGED <<notif, notification_set, server, conn, tasks, running, _nid, returned, batch, rt>>

\* OnExitTask calling stop_callback_server with neither the is_serving test
\* nor the try around it.
OnExitTaskUnguarded ==
  /\ exitpc = "running"
  /\ IF server = "None"
     THEN /\ exitpc' = "raised"
          /\ UNCHANGED <<server, batch, rpc>>
     ELSE /\ server' = "closed"
          /\ batch' = RemovalCommands
          /\ rpc' = "waiting"
          /\ exitpc' = "cleanup"
  /\ last' = NoEvent
  /\ cmd' = <<>>
  /\ UNCHANGED <<notif, notification_set, conn, tasks, running, _nid, returned, rt>>

\* _on_exit_task, run by atexit when the event loop is gone: the listener is
\* stopped if it serves, then asyncio.run starts remove_all_notifications on
\* a loop of its own.  A remove_all_notifications the old loop left waiting
\* is never resumed.
OnExitTask ==
  /\ exitpc = "running"
  /\ server' = IF is_serving THEN "closed" ELSE server
  /\ batch' = RemovalCommands
  /\ rpc' = "waiting"
  /\ exitpc' = "cleanup"
  /\ last' = NoEvent
  /\ cmd' = <<>>
  /\ UNCHANGED <<notif, notification_set, conn, tasks, running, _nid, returned, rt>>

\* Notifications with ids of their own, all sent, behind a started listener:
\* removals in bulk, with click and button requests between.
BulkInit ==
  /\ notif = [o \in Objs |-> WithClickAndButton(o, Handler(o))]
  /\ notification_set = SentUpTo(MaxObjs)
  /\ server = "serving"
  /\ conn = [c \in Conns |-> "idle"]
  /\ tasks = EmptyBag
  /\ running = 0
  /\ last = ControlEvent("start", None)
  /\ Fresh

BulkLines ==
  {RequestLine(CurlPath(ActionId(i, a))) : i \in Objs, a \in {ACTION_CLICK, ACTION_BUTTON1}}

NextBulk ==
  \/ \E c \in Conns : Connect(c)
  \/ \E c \in Conns, line \in BulkLines : CallbackServer(c, line)
  \/ \E c \in Conns : CloseConnection(c)
  \/ RemoveAllNotifications
  \/ \E i \in Objs : RemovalSucceeds(i)
  \/ \E i \in Objs : RemovalFails(i)
  \/ RemoveAllReturns

SpecBulk == BulkInit /\ [][NextBulk]_vars

\* The same with removals one by one (their commands still running) and
\* removal commands that succeed, up to the exit cleanup.
NextLive ==
  \/ exitpc = "running" /\ \E o \in Objs : RemoveNotification(o)
  \/ exitpc = "running" /\ \E c \in Conns : Connect(c)
  \/ exitpc = "running" /\ \E c \in Conns, line \in BulkLines : CallbackServer(c, line)
  \/ exitpc = "running" /\ \E c \in Conns : CloseConnection(c)
  \/ RemoveAllNotifications
  \/ \E i \in Objs : RemovalSucceeds(i)
  \/ RemoveAllReturns
  \/ OnExitTask

SpecLive == BulkInit /\ [][NextLive]_vars

\* The manager's life up to the end of the process: the listener started and
\* stopped or never started, notifications removed, then the exit cleanup.
NextExit ==
  \/ exitpc = "running" /\ StartCallbackServer
  \/ exitpc = "running" /\ StopCallbackServer
  \/ exitpc = "running" /\ \E o \in Objs : SendNotification(o)
  \/ exitpc = "running" /\ \E o \in Objs : RemoveNotification(o)
  \/ exitpc = "running" /\ RunReturns
  \/ OnExitTask
  \/ \E i \in Objs : RemovalSucceeds(i)
  \/ \E i \in Objs : RemovalFails(i)
  \/ RemoveAllReturns

SpecExit == Init /\ [][NextExit]_vars

\* ------------------------------------------------------ the display command
StyleTags == {<<>>, MEDIA}

\* The caller constructs one notification with a style tag and the ongoing
\* flag of its choice, beside a new manager.  No setter binds the
\* media-previous action, so a caller that wants it bound assigns the
\* attribute itself.
CmdInit ==
  /\ \E i \in Objs, t \in StyleTags, g \in BOOLEAN, cb \in Callbacks :
       notif = [o \in Objs |->
                  IF o = Building
                  THEN [NewNotificationWith(i, t, g) EXCEPT !.action_media_previous = cb]
                  ELSE NewNotification(o)]
  /\ notification_set = {}
  /\ server = "None"
  /\ conn = [c \in Conns |-> "idle"]
  /\ tasks = EmptyBag
  /\ running = 0
  /\ last = NoEvent
  /\ Fresh

\* The caller binds actions with the setters before it hands the notification
\* to the manager, and then sends it any number of times.
NextCmd ==
  \/ Building \notin notification_set /\ NextSetters
  \/ SendNotification(Building)
  \/ RunReturns

SpecCmd == CmdInit /\ [][NextCmd]_vars

\* ---------------------------------------------- a callback address, end to end
Ids == (0 - MaxAbsId)..MaxAbsId

\* A notification id and an action to build a callback for.
EncodingInit ==
  /\ notif = [o \in Objs |-> NewNotification(o)]
  /\ notification_set = {}
  /\ server = "None"
  /\ conn = [c \in Conns |-> "idle"]
  /\ tasks = EmptyBag
  /\ running = 0
  /\ last = NoEvent
  /\ _nid = 0
  /\ returned = <<>>
  /\ cmd = <<>>
  /\ batch = <<>>
  /\ rpc = "idle"
  /\ exitpc = "running"
  /\ \E i \in Ids, a \in Actions :
       rt = [NoRoundTrip EXCEPT !.pc = "chosen", !.n_id = i, !.action = a]

\* _notification_cmd formats the action id, _curl_cmd builds the URL, and curl,
\* run by the display service, sends the request line for it.
EncodeCallback ==
  /\ rt.pc = "chosen"
  /\ rt' = [rt EXCEPT !.pc = "sent",
                      !.line = RequestLine(CurlPath(ActionId(rt.n_id, rt.action)))]
  /\ UNCHANGED <<notif, notification_set, server, conn, tasks, running, last,
                 _nid, returned, cmd, batch, rpc, exitpc>>

\* _callback_server reads the line and takes it apart.
ParseCallback ==
  /\ rt.pc = "sent"
  /\ LET req == ParseRequest(rt.line)
     IN  rt' = [rt EXCEPT !.pc = "parsed", !.ok = req.ok,
                          !.got_id = req.n_id, !.got_act = req.n_act]
  /\ UNCHANGED <<notif, notification_set, server, conn, tasks, running, last,
                 _nid, returned, cmd, batch, rpc, exitpc>>

NextEncoding ==
  \/ EncodeCallback
  \/ ParseCallback

SpecEncoding == EncodingInit /\ [][NextEncoding]_vars

\* ------------------------------------------------- terminal requests, repeated
\* Notifications with ids of their own, each with a click handler and with
\* or without a delete handler, each sent once, behind a started listener.
TerminalInit ==
  /\ \E bound \in [Objs -> BOOLEAN] :
       notif = [o \in Objs |->
                  set_delete_action(set_click_action(NewNotification(o), Handler(o)),
                                    IF bound[o] THEN Handler(o) ELSE None)]
  /\ notification_set = SentUpTo(MaxObjs)
  /\ server = "serving"
  /\ conn = [c \in Conns |-> "idle"]
  /\ tasks = EmptyBag
  /\ running = 0
  /\ last = ControlEvent("start", None)
  /\ Fresh

TerminalLines ==
  {RequestLine(CurlPath(ActionId(i, a))) : i \in Objs, a \in {ACTION_CLICK, ACTION_DELETE}}

\* Click and delete requests on every connection, in any order, and the
\* handlers they schedule running to their ends; nothing is sent again.
NextTerminal ==
  \/ \E c \in Conns : Connect(c)
  \/ \E c \in Conns, line \in TerminalLines : CallbackServer(c, line)
  \/ \E c \in Conns : CloseConnection(c)
  \/ \E t \in BagToSet(tasks) : HandlerReturns(t)
  \/ \E t \in BagToSet(tasks) : HandlerRaises(t)

SpecTerminal == TerminalInit /\ [][NextTerminal]_vars

\* ---------------------------------------------------------------- claims
\* The request the external service makes for action a of notification id i.
Requests == [i \in Objs |-> [a \in Actions |-> RequestLine(CurlPath(ActionId(i, a)))]]

RequestFor(i, a) == Requests[i][a]

\* The binding a record holds for an action: the attribute its setter sets.
Binding(n, a) ==
  CASE a = ACTION_CLICK -> n.action_click
    [] a = ACTION_DELETE -> n.action_delete
    [] a = ACTION_BUTTON1 -> n.action_button1
    [] a = ACTION_BUTTON2 -> n.action_button2
    [] a = ACTION_BUTTON3 -> n.action_button3
    [] a = ACTION_MEDIA_PLAY -> n.action_media_play
    [] a = ACTION_MEDIA_PAUSE -> n.action_media_pause
    [] a = ACTION_MEDIA_NEXT -> n.action_media_next
    [] a = ACTION_MEDIA_PREVIOUS -> n.action_media_previous

\* The live records with id i, in a given live set.
LiveWithId(S, i) == {o \in S : notif[o].n_id = i}

\* The tasks a step has scheduled.
Scheduled == BagToSet(tasks' (-) tasks)

\* The step in which a connection's request line is read.
RequestStep ==
  /\ last'.op = "request"
  /\ conn[last'.conn] = "reading"
  /\ conn'[last'.conn] # "reading"

TerminalActions == {ACTION_CLICK, ACTION_DELETE}
NonTerminalActions == Actions \ TerminalActions

\* C1. Replace semantics: the live set never holds two records with one id;
\* after send_notification(R2) the one live record with R2's id is R2,
\* whatever record carried the id before; and a dispatch for an id schedules
\* nothing but a handler bound on the record live under that id.
ReplaceSemantics ==
  /\ [](\A a, b \in notification_set : notif[a].n_id = notif[b].n_id => a = b)
  /\ [][\A o \in Objs :
          SendNotification(o) => LiveWithId(notification_set', notif[o].n_id) = {o}]_vars
  /\ [][RequestStep =>
          \A i \in Objs, a \in Actions :
            last'.line = RequestFor(i, a) =>
              \A t \in Scheduled :
                /\ LiveWithId(notification_set, i) = {t.n}
                /\ t.handler = Binding(notif[t.n], a)
                /\ t.handler # None]_vars

\* A second record was sent under the id of a first whose handler had run,
\* and the request that followed found the second and scheduled its handler.
ReplaceSemanticsWitness ==
  /\ last.op = "request"
  /\ last.found # 0
  /\ \E r1 \in Objs \ {last.found} :
       /\ notif[r1].n_id = notif[last.found].n_id
       /\ \E t \in BagToSet(tasks) : t.n = r1 /\ t.handler = Handler(r1)
  /\ \E t \in BagToSet(tasks) : t.n = last.found /\ t.handler = Handler(last.found)
  /\ \A t \in BagToSet(tasks) : t.handler = Handler(t.n)

\* C2. Terminal-action removal: in the state a click or delete dispatch for
\* id i leaves, no live record has id i, bound handler or not.
TerminalActionRemoval ==
  \A i \in Objs, a \in TerminalActions :
    (last.op = "request" /\ last.line = RequestFor(i, a)) => LiveWithId(notification_set, i) = {}

\* A delete was dispatched to a live record that binds no delete handler:
\* nothing was scheduled and the record is gone.
TerminalActionRemovalWitness ==
  /\ last.op = "request"
  /\ last.found # 0
  /\ last.line = RequestFor(notif[last.found].n_id, ACTION_DELETE)
  /\ notif[last.found].action_delete = None
  /\ tasks = EmptyBag
  /\ last.found \notin notification_set

\* C3. Unknown routing is a no-op: a request for an id that is not live, or
\* for an action the live record binds no handler for, schedules nothing,
\* raises nothing and has its response written.
UnknownRoutingNoOp ==
  [][RequestStep =>
       \A i \in Objs, a \in Actions :
         (/\ last'.line = RequestFor(i, a)
          /\ \A o \in LiveWithId(notification_set, i) : Binding(notif[o], a) = None)
         => /\ tasks' = tasks
            /\ last'.exc = None
            /\ conn'[last'.conn] = "draining"]_vars

\* A request named a live record's unbound button 2: no task exists and
\* the connection has its response.
UnknownRoutingNoOpWitness ==
  /\ last.op = "request"
  /\ last.found # 0
  /\ last.line = RequestFor(notif[last.found].n_id, ACTION_BUTTON2)
  /\ notif[last.found].action_button2 = None
  /\ tasks = EmptyBag
  /\ conn[last.conn] = "draining"

\* C5. Non-terminal actions are repeatable: a request for a button or media
\* action leaves the live set as it was, and when the live record binds a
\* handler for the action the request schedules that handler once more.
NonTerminalRepeatable ==
  [][RequestStep =>
       \A i \in Objs, a \in NonTerminalActions :
         last'.line = RequestFor(i, a) =>
           /\ notification_set' = notification_set
           /\ \A o \in LiveWithId(notification_set, i) :
                Binding(notif[o], a) # None =>
                  tasks' = tasks (+) SetToBag({Task(o, a, Binding(notif[o], a), "pending")})]_vars

\* Two requests for the bound button 1 of one live record have scheduled its
\* handler twice, and the record is still live.
NonTerminalRepeatableWitness ==
  \E o \in notification_set :
    /\ last.op = "request"
    /\ last.line = RequestFor(notif[o].n_id, ACTION_BUTTON1)
    /\ CopiesIn(Task(o, ACTION_BUTTON1, Handler(o), "pending"), tasks) = 2

\* The number of times handler h has been scheduled.
Invocations(h) ==
  BagCardinality([t \in {x \in BagToSet(tasks) : x.handler = h} |-> tasks[t]])

\* The connections whose click request for id i has been dispatched.
Answered(i) == {c \in Conns : ClickTarget(c) = i /\ conn[c] \in {"draining", "closed"}}

\* C4. Concurrent dispatch isolation: with live notifications of distinct
\* ids and one click request per id on connections of their own, in any
\* interleaving a notification's handler has been invoked exactly once when
\* the request for its id has been dispatched and not at all before, and
\* every invocation is of the handler of the record the request named.
ConcurrentDispatchIsolation ==
  /\ \A o \in Objs :
       Invocations(Handler(o)) = IF Answered(notif[o].n_id) = {} THEN 0 ELSE 1
  /\ \A t \in BagToSet(tasks) : t.handler = Handler(t.n) /\ t.action = ACTION_CLICK

\* Every connection is open with its response written, and every
\* notification's handler has been scheduled once.
ConcurrentDispatchIsolationWitness ==
  /\ \A c \in Conns : conn[c] = "draining"
  /\ \A o \in Objs : Invocations(Handler(o)) = 1
  /\ \E t \in BagToSet(tasks) : t.st = "failed"

\* The step in which a handler task returns or raises.
HandlerStep ==
  \E t \in BagToSet(tasks) :
    t.st = "pending" /\ CopiesIn(t, tasks') < CopiesIn(t, tasks)

\* C6. Fire-and-forget: the step that reads a well-formed request writes
\* its response while the handler it scheduled is still pending; a response
\* once written leads to the connection's close whether or not any handler
\* ever finishes; and a handler returning or raising changes neither the
\* live set, nor the listener, nor any connection.
FireAndForget ==
  /\ [][\A c \in Conns :
          (conn[c] = "reading" /\ conn'[c] # "reading" /\ last'.line \in CallbackLines)
          => /\ conn'[c] = "draining"
             /\ \A t \in Scheduled : t.st = "pending"]_vars
  /\ \A c \in Conns : (conn[c] = "draining") ~> (conn[c] = "closed")
  /\ [][HandlerStep => UNCHANGED <<notification_set, server, conn>>]_vars

\* A connection is closed while a handler is still pending and another has
\* raised.
FireAndForgetWitness ==
  /\ \E c \in Conns : conn[c] = "closed"
  /\ \E t \in BagToSet(tasks) : t.st = "pending"
  /\ \E t \in BagToSet(tasks) : t.st = "failed"
  /\ is_serving

\* C7. Stop semantics: a stop of a serving listener leaves is_serving false,
\* and it becomes true again only by a start; no connection is taken up while
\* the listener is not serving; a stop cancels no handler and touches no
\* connection, and a pending handler can always run to completion.
StopSemantics ==
  /\ [][(is_serving /\ last'.op = "stop") => ~is_serving']_vars
  /\ [][(~is_serving /\ is_serving') => last'.op = "start"]_vars
  /\ [][\A c \in Conns : (conn[c] = "idle" /\ conn'[c] # "idle") => is_serving]_vars
  /\ [][last'.op = "stop" => (tasks' = tasks /\ conn' = conn)]_vars
  /\ [](\A t \in BagToSet(tasks) : t.st = "pending" => ENABLED HandlerReturns(t))

\* The listener was stopped with a handler pending and a connection still
\* open: both are as they were.
StopSemanticsWitness ==
  /\ last = ControlEvent("stop", None)
  /\ server = "closed"
  /\ \E t \in BagToSet(tasks) : t.st = "pending" /\ ENABLED HandlerReturns(t)
  /\ \E c \in Conns : conn[c] = "draining"

\* C8. Listener control idempotence: a stop while not serving raises nothing
\* and leaves is_serving false; a start while serving raises nothing and
\* leaves is_serving true.
ListenerControlIdempotence ==
  [][/\ (~is_serving /\ last'.op = "stop") => (last'.exc = None /\ ~is_serving')
     /\ (is_serving /\ last'.op = "start") => (last'.exc = None /\ is_serving')]_vars

\* The request line is malformed: not three parts between spaces, or a path
\* that is not "/", an id, a colon and an action, or an id that is not an
\* integer (as int() reads integers), or an action that is none of the nine
\* tokens.
Malformed(line) ==
  LET parts == Split(line, " ")
  IN  \/ Len(parts) # 3
      \/ LET pieces == Split(parts[2], ":")
         IN  \/ Len(pieces) # 2
             \/ pieces[1] = <<>>
             \/ Head(pieces[1]) # "/"
             \/ ~ParseInt(Tail(pieces[1])).ok
             \/ pieces[2] \notin Actions

MalformedRequests == {line \in AllLines : Malformed(line)}

\* C9. Malformed requests are harmless: the reading of a malformed request
\* line schedules no handler, leaves the live set and the listener as they
\* were, and touches no other connection.
MalformedHarmless ==
  [][\A c \in Conns :
       (/\ conn[c] = "reading"
        /\ conn'[c] # "reading"
        /\ last'.op = "request"
        /\ last'.line \in MalformedRequests)
       => /\ tasks' = tasks
          /\ notification_set' = notification_set
          /\ server' = server
          /\ \A d \in Conns \ {c} : conn'[d] = conn[d]]_vars

\* The request lines _callback_server raises on, or whose action no branch
\* of _on_action_callback names.
Unrouted == {line \in AllLines : ~Parsed[line].ok \/ Parsed[line].n_act \notin Actions}

\* What holds of the lines the code itself cannot route: reading one
\* schedules no handler, leaves the live set and the listener as they were,
\* and touches no other connection.
UnroutedHarmless ==
  [][\A c \in Conns :
       (/\ conn[c] = "reading"
        /\ conn'[c] # "reading"
        /\ last'.op = "request"
        /\ last'.line \in Unrouted)
       => /\ tasks' = tasks
          /\ notification_set' = notification_set
          /\ server' = server
          /\ \A d \in Conns \ {c} : conn'[d] = conn[d]]_vars

\* One connection has failed on a line the code raises on with the listener
\* still serving, and another has had its request dispatched and acknowledged.
UnroutedHarmlessWitness ==
  /\ is_serving
  /\ \E c \in Conns : conn[c] = "failed"
  /\ last.op = "request"
  /\ last.exc = None
  /\ last.line \notin Unrouted
  /\ conn[last.conn] = "draining"
  /\ tasks # EmptyBag

\* C10. Button label/handler coupling: in every state, each button slot's
\* label is empty exactly when its handler is absent.
ButtonCoupling ==
  \A o \in Objs :
    /\ notif[o].button1 = "" <=> notif[o].action_button1 = None
    /\ notif[o].button2 = "" <=> notif[o].action_button2 = None
    /\ notif[o].button3 = "" <=> notif[o].action_button3 = None

\* C11. Id uniqueness: whatever else the manager does between the calls,
\* every id new_nid has returned is greater than zero and greater than every
\* id it returned before, so no id is returned twice.
IdUniqueness ==
  \A k \in DOMAIN returned :
    /\ returned[k] > 0
    /\ \A j \in 1..(k - 1) : returned[j] < returned[k]

\* new_nid has been called as often as followed, with a send, a listener
\* start and a dispatched request among the calls.
IdUniquenessWitness ==
  /\ Len(returned) = MaxIds
  /\ last.op = "request"
  /\ last.found # 0
  /\ tasks # EmptyBag

\* C12. Bulk removal: remove_all_notifications starts one removal command
\* for the id of every notification live at the call, all of them before any
\* has finished; it returns only when every one of them has finished; while
\* it waits no command is dropped or restarted; and a command that has failed
\* leaves every other command of the batch able to finish and the call able
\* to return once they have.
BulkRemoval ==
  /\ [][(rpc # "waiting" /\ rpc' = "waiting") =>
          /\ DOMAIN batch' = LiveIds
          /\ \A i \in LiveIds : batch'[i] = "running"]_vars
  /\ [](rpc = "returned" => \A i \in DOMAIN batch : batch[i] \in {"ok", "failed"})
  /\ [][(rpc = "waiting" /\ rpc' = "waiting") =>
          /\ DOMAIN batch' = DOMAIN batch
          /\ \A i \in DOMAIN batch : batch[i] # "running" => batch'[i] = batch[i]]_vars
  /\ [](rpc = "waiting" =>
          /\ \A i \in DOMAIN batch : batch[i] = "running" => ENABLED RemovalSucceeds(i)
          /\ BatchFinished => ENABLED RemoveAllReturns)

\* A bulk removal over two live notifications has returned with one command
\* failed and the other succeeded.
BulkRemovalWitness ==
  /\ rpc = "returned"
  /\ \E i, j \in DOMAIN batch : batch[i] = "failed" /\ batch[j] = "ok"

Unregistered(i) == i \in LiveIds /\ i \notin LiveIds'

\* C20. remove_all_notifications and the exit cleanup leave the live set as
\* it is: no step of either changes it; an id leaves the live set only in a
\* remove_notification of a record with that id or in the dispatch of a click
\* or delete request for it; and a request for a bound action of a live id is
\* routed to its handler, bulk removal or not.
RemoveAllKeepsLiveSet ==
  /\ [][(rpc' # rpc \/ batch' # batch \/ exitpc' # exitpc) =>
          notification_set' = notification_set]_vars
  /\ [][\A i \in Objs :
          Unregistered(i) =>
            \/ \E o \in Objs : notif[o].n_id = i /\ RemoveNotification(o)
            \/ RequestStep /\ \E a \in TerminalActions : last'.line = RequestFor(i, a)]_vars
  /\ [][RequestStep =>
          \A i \in Objs, a \in Actions :
            last'.line = RequestFor(i, a) =>
              \A o \in LiveWithId(notification_set, i) :
                Binding(notif[o], a) # None =>
                  tasks' = tasks (+) SetToBag({Task(o, a, Binding(notif[o], a), "pending")})]_vars

\* A bulk removal issued a command for a notification's id and returned; the
\* request that followed was routed to the notification's handler.
RemoveAllKeepsLiveSetWitness ==
  /\ rpc = "returned"
  /\ last.op = "request"
  /\ last.found # 0
  /\ notif[last.found].n_id \in DOMAIN batch
  /\ batch[notif[last.found].n_id] = "ok"
  /\ \E t \in BagToSet(tasks) : t.n = last.found /\ t.handler = Handler(last.found)
  /\ exitpc = "running"


\* The values that follow a flag in a display command.
Values(c, flag) == {c[k].value : k \in {j \in DOMAIN c : c[j].flag = flag}}

\* A value that is a callback command: the listener's URL and a path.
IsCallback(v) ==
  /\ Len(v) >= Len(Localhost)
  /\ SubSeq(v, 1, Len(Localhost)) = Localhost

\* What the listener makes of the request a callback command sends.
Decoded(v) == ParseRequest(RequestLine(SubSeq(v, Len(Localhost) + 1, Len(v))))

\* A callback command that reaches the listener as (i, a).
Encodes(v, i, a) ==
  /\ IsCallback(v)
  /\ Decoded(v) = [ok |-> TRUE, n_id |-> i, n_act |-> a]

\* C14. Click/delete wiring on send: the display command a send issues holds
\* a click callback exactly when a click handler is bound or the notification
\* is not ongoing, and a delete callback exactly when a delete handler is
\* bound or the notification is not ongoing; each of them reaches the
\* listener as the notification's own id and the matching action.
ClickDeleteWiring ==
  [][\A o \in Objs :
       SendNotification(o) =>
         LET n == notif[o]
             click == Values(cmd', "--action")
             delete == Values(cmd', "--on-delete")
         IN  /\ (click # {}) <=> (n.action_click # None \/ ~n.ongoing)
             /\ (delete # {}) <=> (n.action_delete # None \/ ~n.ongoing)
             /\ \A v \in click : Encodes(v, n.n_id, ACTION_CLICK)
             /\ \A v \in delete : Encodes(v, n.n_id, ACTION_DELETE)]_vars

\* An ongoing notification with a click handler and no delete handler was
\* sent: its command carries a click callback and no delete callback.
ClickDeleteWiringWitness ==
  /\ cmd # <<>>
  /\ notif[Building].ongoing
  /\ notif[Building].action_click # None
  /\ notif[Building].action_delete = None
  /\ \E v \in Values(cmd, "--action") :
       Encodes(v, notif[Building].n_id, ACTION_CLICK)
  /\ Values(cmd, "--on-delete") = {}

\* The display command holds the callback command _curl_cmd builds for
\* action a of notification id i.
Wired(c, i, a) == \E k \in DOMAIN c : c[k].value = CurlCmd(ActionId(i, a))

MediaActions ==
  {ACTION_MEDIA_PLAY, ACTION_MEDIA_PAUSE, ACTION_MEDIA_NEXT, ACTION_MEDIA_PREVIOUS}

\* C15 as stated: every action with a bound handler is wired into the display
\* command a send issues, whatever the style tag, the ongoing flag and the
\* button labels.
EveryBoundActionWired ==
  [][\A o \in Objs :
       SendNotification(o) =>
         \A a \in Actions :
           Binding(notif[o], a) # None => Wired(cmd', notif[o].n_id, a)]_vars

\* C15. Every bound action is wired on send, the media actions when the
\* style tag is "media": a bound click, delete or button handler is wired
\* whatever the style tag, the ongoing flag and the button labels; a bound
\* media handler is wired when the notification's style tag is "media", and
\* with any other style tag no media callback is wired.
BoundActionWiredUnderStyle ==
  [][\A o \in Objs :
       SendNotification(o) =>
         \A a \in Actions :
           /\ /\ Binding(notif[o], a) # None
              /\ a \in MediaActions => notif[o].n_type = MEDIA
              => Wired(cmd', notif[o].n_id, a)
           /\ /\ a \in MediaActions
              /\ notif[o].n_type # MEDIA
              => ~Wired(cmd', notif[o].n_id, a)]_vars

\* A media notification was sent with a media handler bound and a button
\* handler bound under an empty label: both callbacks are in its command.
BoundActionWiredUnderStyleWitness ==
  /\ cmd # <<>>
  /\ notif[Building].n_type = MEDIA
  /\ notif[Building].ongoing
  /\ notif[Building].action_media_play # None
  /\ notif[Building].action_button1 # None
  /\ notif[Building].button1 = ""
  /\ Wired(cmd, notif[Building].n_id, ACTION_MEDIA_PLAY)
  /\ Wired(cmd, notif[Building].n_id, ACTION_BUTTON1)


\* The request line of every (id, action) pair, computed once.
EncodedLines ==
  [i \in Ids |-> [a \in Actions |-> RequestLine(CurlPath(ActionId(i, a)))]]

\* C16. Callback encoding round-trip: the request the encoder produces for an
\* integer id and one of the nine actions is parsed by the listener back to
\* that id and that action, and no other (id, action) pair produces it.
EncodingRoundTrip ==
  /\ rt.pc = "parsed" =>
       /\ rt.ok
       /\ rt.got_id = rt.n_id
       /\ rt.got_act = rt.action
  /\ rt.pc \in {"sent", "parsed"} =>
       \A j \in Ids, b \in Actions :
         EncodedLines[j][b] = rt.line => j = rt.n_id /\ b = rt.action

\* The address of media-previous for a negative two-digit id went through
\* the encoder and the listener's parsing.
EncodingRoundTripWitness ==
  /\ rt.pc = "parsed"
  /\ rt.n_id < -9
  /\ rt.action = ACTION_MEDIA_PREVIOUS
  /\ rt.ok
  /\ rt.got_id = rt.n_id
  /\ rt.got_act = ACTION_MEDIA_PREVIOUS


FixedRoleActions == {ACTION_CLICK, ACTION_DELETE} \cup MediaActions

\* Two bindings are the same: both absent, or the same handler.
Same(x, y) == IF x = None THEN y = None ELSE y # None /\ x = y

\* What the binding setter of a fixed-role action makes of a notification;
\* media previous has none.
SetterEffect(a, n, cb) ==
  CASE a = ACTION_CLICK -> set_click_action(n, cb)
    [] a = ACTION_DELETE -> set_delete_action(n, cb)
    [] a = ACTION_MEDIA_PLAY -> set_media_play_action(n, cb)
    [] a = ACTION_MEDIA_PAUSE -> set_media_pause_action(n, cb)
    [] a = ACTION_MEDIA_NEXT -> set_media_next_action(n, cb)

\* The step is the call of the binding setter of fixed-role action a with
\* handler cb on the notification being built.
SetterCall(a, cb) ==
  IF a = ACTION_MEDIA_PREVIOUS
  THEN /\ last' # last
       /\ last'.op = "set_media_previous_action"
  ELSE /\ last' = last
       /\ \A b \in Actions :
            Same(Binding(notif'[Building], b),
                 Binding(SetterEffect(a, notif[Building], cb), b))

\* C17. Every fixed-role action has its own setter: the setter of click,
\* delete, media play, media pause, media next or media previous, called with
\* handler H, makes H the handler a dispatch of that action resolves to, and
\* leaves the binding of every other action as it was.
FixedRoleSetters ==
  [][\A a \in FixedRoleActions, cb \in {Handler(Building)} :
       SetterCall(a, cb) =>
         /\ Same(Binding(notif'[Building], a), cb)
         /\ Same(HandlerFor(notif'[Building], a), cb)
         /\ \A b \in Actions \ {a} :
              Same(Binding(notif'[Building], b), Binding(notif[Building], b))]_vars


\* The five fixed-role setters the class defines do bind as stated: the step
\* makes the handler the one a dispatch of that action resolves to and
\* changes no other binding.
DefinedSettersBind ==
  [][\A a \in FixedRoleActions \ {ACTION_MEDIA_PREVIOUS}, cb \in {Handler(Building)} :
       SetterCall(a, cb) =>
         /\ Same(Binding(notif'[Building], a), cb)
         /\ Same(HandlerFor(notif'[Building], a), cb)
         /\ \A b \in Actions \ {a} :
              Same(Binding(notif'[Building], b), Binding(notif[Building], b))]_vars


\* C18 as stated: while a send that replaces a live id is in progress, at
\* every point where a dispatch can interleave the id resolves to exactly one
\* live record.  The state such a send leaves has its command just issued;
\* after any step that is not a command's return the send is still in
\* progress, and exactly one record is to be live under the command's id.
OneRecordWhileSending ==
  [][(last.op = "send" /\ last.found # 0 /\ running' >= running) =>
       \A i \in Objs :
         cmd[1].value = IntToStr(i) =>
           Cardinality(LiveWithId(notification_set', i)) = 1]_vars

\* C18. Atomic replace under interleaving, until the id is dispatched or
\* removed: the step of a send that replaces a live id leaves exactly the
\* sent record live under the id, with its display command issued and
\* running; while the command runs the records live under an id change only
\* by a send or a removal of that id or by a click or delete dispatch for
\* it; and a dispatch that interleaves finds the one record live under the
\* id, or none when none is.
AtomicReplace ==
  [][/\ last'.op = "send" =>
          \A o \in Objs :
            (LiveWithId(notification_set, notif[o].n_id) # {} /\ SendNotification(o))
            => /\ LiveWithId(notification_set', notif[o].n_id) = {o}
               /\ last'.found \in LiveWithId(notification_set, notif[o].n_id)
               /\ running' > 0
               /\ cmd' # <<>>
     /\ notification_set' # notification_set =>
          \A i \in Objs :
            LiveWithId(notification_set', i) # LiveWithId(notification_set, i)
            => \/ \E o \in Objs :
                    /\ notif[o].n_id = i
                    /\ SendNotification(o) \/ RemoveNotification(o)
               \/ /\ RequestStep
                  /\ \E a \in TerminalActions : last'.line = RequestFor(i, a)
     /\ RequestStep =>
          \A i \in Objs, a \in Actions :
            last'.line = RequestFor(i, a) =>
              /\ Cardinality(LiveWithId(notification_set, i)) <= 1
              /\ IF LiveWithId(notification_set, i) = {}
                 THEN last'.found = 0
                 ELSE LiveWithId(notification_set, i) = {last'.found}]_vars

\* The display command of a send has just been issued and is running, a
\* connection waits to deliver a request, and the record live under the
\* command's id is the one sent, not the earlier record of the same id whose
\* handler had been scheduled.
AtomicReplaceWitness ==
  /\ last.op = "send"
  /\ last.found # 0
  /\ cmd # <<>>
  /\ running > 0
  /\ \E c \in Conns : conn[c] = "reading"
  /\ \E o \in notification_set \ {last.found} :
       /\ notif[last.found].n_id = notif[o].n_id
       /\ cmd[1].value = IntToStr(notif[o].n_id)
       /\ LiveWithId(notification_set, notif[o].n_id) = {o}
       /\ \E t \in BagToSet(tasks) : t.n = last.found
       /\ \A t \in BagToSet(tasks) : t.n # o


\* The number of click and delete handler invocations scheduled for record o.
TerminalInvocations(o) ==
  BagCardinality([t \in {x \in BagToSet(tasks) :
                           x.n = o /\ x.action \in TerminalActions} |-> tasks[t]])

\* C19. Terminal handlers fire at most once per send: for a notification
\* sent once, over click and delete requests for its id on connections
\* handled concurrently, at most one click or delete handler invocation is
\* ever scheduled, and a terminal request for an id that an earlier one has
\* taken finds no record and schedules nothing.
TerminalAtMostOnce ==
  /\ [](\A o \in Objs : TerminalInvocations(o) <= 1)
  /\ [][RequestStep =>
          \A i \in Objs, a \in TerminalActions :
            (last'.line = RequestFor(i, a) /\ LiveWithId(notification_set, i) = {})
            => /\ last'.found = 0
               /\ tasks' = tasks
               /\ LiveWithId(notification_set', i) = {}]_vars

\* Every connection has had a click or delete request for one id dispatched,
\* the latest found no record, and one handler invocation was scheduled.
TerminalAtMostOnceWitness ==
  /\ last.op = "request"
  /\ last.found = 0
  /\ \A c \in Conns : conn[c] \in {"draining", "closed"}
  /\ \E o \in Objs :
       /\ last.line = RequestFor(notif[o].n_id, ACTION_DELETE)
       /\ notif[o].action_delete # None
       /\ TerminalInvocations(o) = 1
       /\ \A q \in Objs \ {o} : TerminalInvocations(q) = 0

====
